---- MODULE Spec2Model ----
(***************************************************************************)
(* Model of docs/docs/tutorials/tool_use/index.ipynb: the example          *)
(* preparation loop, wrap_function_with_timeout, metric and Agent.forward. *)
(* Python strings are sequences of one-character strings.                  *)
(***************************************************************************)
EXTENDS Integers, Sequences, FiniteSets, TLC

\* ------------------------------------------------------------------ bounds
MaxStepsBound == 5

MaxCalls == MaxStepsBound + 2

\* ----------------------------------------------------------- Python values
PyNone == "None"

EmptyStr == ""

DQ == "\""

SQ == "'"

\* str.lstrip(chars): drop leading characters that are in the set chars.
RECURSIVE LStrip(_, _)
LStrip(s, cs) ==
    IF s # <<>> /\ Head(s) \in cs THEN LStrip(Tail(s), cs) ELSE s

\* str.rstrip(chars): drop trailing characters that are in the set chars.
RECURSIVE RStrip(_, _)
RStrip(s, cs) ==
    IF s # <<>> /\ s[Len(s)] \in cs THEN RStrip(SubSeq(s, 1, Len(s) - 1), cs) ELSE s

\* str.strip(chars)
Strip(s, cs) == RStrip(LStrip(s, cs), cs)

\* dict.get(key, default)
DictGet(d, key, default) == IF key \in DOMAIN d THEN d[key] ELSE default

\* ------------------------------------------------------------- tool names
FinishName == <<"f", "i", "n", "i", "s", "h">>

AddName == <<"a", "d", "d">>

UnknownName == <<"z">>

\* Agent.forward, line 219: pred.next_selected_fn.strip('"').strip("'")
NormalizeFn(raw) == Strip(Strip(raw, {DQ}), {SQ})

\* ---------------------------------------------------- the agent's example
\* The registry handed to forward: one dataset tool and the echo tool that
\* the preparation loop binds to "finish".
functions == (AddName :> "dataset") @@ (FinishName :> "echo")

\* What the reasoning call may answer (next_selected_fn, before normalization).
ModelOutputs ==
    { FinishName,
      <<DQ>> \o FinishName \o <<DQ>>,
      <<SQ>> \o AddName \o <<SQ>>,
      AddName,
      UnknownName,
      <<SQ, DQ>> \o FinishName \o <<DQ, SQ>> }

\* pred.args
ArgChoices == { [answer |-> "42"], [a |-> "1"] }

\* Parameter names of each kind of tool: finish(answer), add(a).
Params(kind) == IF kind = "echo" THEN {"answer"} ELSE {"a"}

\* What one invocation of the tool body can do, given the keyword arguments.
\* A keyword mismatch is a TypeError raised by the call fn(*args, **kwargs);
\* the echo tool returns its argument; a dataset tool is arbitrary code.
ToolOutcomes(kind, args) ==
    IF DOMAIN args # Params(kind)
    THEN { [kind |-> "exception", value |-> PyNone, text |-> "TypeError"] }
    ELSE IF kind = "echo"
    THEN { [kind |-> "value", value |-> args.answer, text |-> PyNone] }
    ELSE { [kind |-> "value", value |-> "7", text |-> PyNone],
           [kind |-> "value", value |-> PyNone, text |-> PyNone],
           [kind |-> "exception", value |-> PyNone, text |-> "boom"],
           [kind |-> "timeout", value |-> PyNone, text |-> PyNone] }

\* wrap_function_with_timeout(fn)(**kwargs) without the except clause.
Wrapper_NoExcept(o) ==
    IF o.kind = "value"
    THEN [raises |-> PyNone, out |-> [return_value |-> o.value, errors |-> PyNone]]
    ELSE [raises |-> IF o.kind = "timeout" THEN "FunctionTimedOut" ELSE o.text,
          out |-> [return_value |-> PyNone, errors |-> PyNone]]

\* wrap_function_with_timeout(fn)(**kwargs): the try/except runs inside the
\* func_set_timeout(10) decorator, so an Exception of fn becomes an errors
\* string, while the decorator's FunctionTimedOut is raised to the caller.
Wrapper(o) ==
    CASE o.kind = "value" ->
            [raises |-> PyNone, out |-> [return_value |-> o.value, errors |-> PyNone]]
      [] o.kind = "exception" ->
            [raises |-> PyNone, out |-> [return_value |-> PyNone, errors |-> o.text]]
      [] o.kind = "timeout" ->
            [raises |-> "FunctionTimedOut",
             out |-> [return_value |-> PyNone, errors |-> PyNone]]

\* ------------------------------------------------------------------ state
VARIABLES
    max_steps,      \* self.max_steps
    pc,             \* position inside Agent.forward
    i,              \* iterations of range(self.max_steps) begun
    pred,           \* result of self.react(...)
    selected_fn,    \* normalized tool name
    outcome,        \* what this iteration's tool invocation did
    fn_output,      \* local fn_output (unbound before the first call)
    trajectory,     \* local trajectory
    result,         \* the returned dspy.Prediction
    raised,         \* the exception that left forward, if any
    reactCalls,     \* number of self.react calls made
    toolCalls,      \* number of wrapped tool invocations made
    \* metric(example, pred)
    m_gold,         \* example.answer
    m_pred,         \* pred.answer
    m_pc,           \* "start" or "scored"
    m_result,       \* the value metric returned
    \* the tool-name normalization on its own
    n_raw,          \* pred.next_selected_fn
    n_pc,           \* "start", "once" or "twice"
    n_once,         \* the normalized name
    n_twice,        \* the normalized name, normalized again
    \* the example preparation loop
    nData,          \* len(data)
    d,              \* datapoints completed
    nFuncs,         \* len(datapoint["functions"])
    f,              \* entries of datapoint["functions"] taken
    func_code,      \* the entry being processed
    func_dict,      \* tools registered for the current datapoint
    fns2code,       \* function object -> name
    examples,       \* the examples built
    nextId,         \* identity of the next function object exec creates
    p_pc,           \* position inside the loop
    p_raised        \* the exception that ended the loop, if any

agentVars == <<max_steps, pc, i, pred, selected_fn, outcome, fn_output, trajectory,
               result, raised, reactCalls, toolCalls>>

metricVars == <<m_gold, m_pred, m_pc, m_result>>

normVars == <<n_raw, n_pc, n_once, n_twice>>

prepVars == <<nData, d, nFuncs, f, func_code, func_dict, fns2code, examples,
              nextId, p_pc, p_raised>>

vars == <<agentVars, metricVars, normVars, prepVars>>

Unbound == [unbound |-> TRUE]

NoPred == [reasoning |-> PyNone, next_selected_fn |-> <<>>, args |-> <<>>]

NoOutcome == [kind |-> "notcalled", value |-> PyNone, text |-> PyNone]

NoResult == [returned |-> FALSE]

Running == pc \notin {"done", "raised"}

\* A head that the name pattern does not match, bound to no name.
NoCode == [head |-> "other", name |-> <<>>, body |-> "def"]

AgentIdle ==
    /\ max_steps = 0
    /\ pc = "idle"
    /\ i = 0
    /\ pred = NoPred
    /\ selected_fn = <<>>
    /\ outcome = NoOutcome
    /\ fn_output = Unbound
    /\ trajectory = <<>>
    /\ result = NoResult
    /\ raised = PyNone
    /\ reactCalls = 0
    /\ toolCalls = 0

MetricIdle ==
    /\ m_gold = <<>>
    /\ m_pred = <<>>
    /\ m_pc = "idle"
    /\ m_result = FALSE

NormIdle ==
    /\ n_raw = <<>>
    /\ n_pc = "idle"
    /\ n_once = <<>>
    /\ n_twice = <<>>

PrepIdle ==
    /\ nData = 0
    /\ d = 0
    /\ nFuncs = 0
    /\ f = 0
    /\ func_code = NoCode
    /\ func_dict = <<>>
    /\ fns2code = <<>>
    /\ examples = <<>>
    /\ nextId = 1
    /\ p_pc = "idle"
    /\ p_raised = PyNone

Init ==
    /\ MetricIdle /\ NormIdle /\ PrepIdle
    /\ max_steps \in 0..MaxStepsBound
    /\ pc = "for"
    /\ i = 0
    /\ pred = NoPred
    /\ selected_fn = <<>>
    /\ outcome = NoOutcome
    /\ fn_output = Unbound
    /\ trajectory = <<>>
    /\ result = NoResult
    /\ raised = PyNone
    /\ reactCalls = 0
    /\ toolCalls = 0

\* range(self.max_steps) with one element too many.
RangeHasNext_OffByOne == i <= max_steps

\* a loop that never exhausts
RangeHasNext_Forever == TRUE

\* for _ in range(self.max_steps): another element is left.
RangeHasNext == i < max_steps

ForNext ==
    /\ pc = "for"
    /\ RangeHasNext
    /\ i' = i + 1
    /\ pc' = "react"
    /\ UNCHANGED <<max_steps, pred, selected_fn, outcome, fn_output, trajectory,
                   result, raised, reactCalls, toolCalls>>
    /\ UNCHANGED <<metricVars, normVars, prepVars>>

ForExhausted ==
    /\ pc = "for"
    /\ ~RangeHasNext
    /\ pc' = "return"
    /\ UNCHANGED <<max_steps, i, pred, selected_fn, outcome, fn_output, trajectory,
                   result, raised, reactCalls, toolCalls>>
    /\ UNCHANGED <<metricVars, normVars, prepVars>>

\* pred = self.react(...); selected_fn = pred.next_selected_fn.strip('"').strip("'")
React ==
    /\ pc = "react"
    /\ reactCalls < MaxCalls
    /\ \E raw \in ModelOutputs, args \in ArgChoices :
          /\ pred' = [reasoning |-> "r", next_selected_fn |-> raw, args |-> args]
          /\ selected_fn' = NormalizeFn(raw)
    /\ outcome' = NoOutcome
    /\ reactCalls' = reactCalls + 1
    /\ pc' = "lookup"
    /\ UNCHANGED <<max_steps, i, fn_output, trajectory, result, raised, toolCalls>>
    /\ UNCHANGED <<metricVars, normVars, prepVars>>

\* functions[selected_fn] with a missing key turned into an error step.
Lookup_Recover ==
    /\ pc = "lookup"
    /\ IF selected_fn \in DOMAIN functions
       THEN /\ pc' = "call"
            /\ UNCHANGED fn_output
       ELSE /\ pc' = "append"
            /\ fn_output' = [return_value |-> PyNone, errors |-> "KeyError"]
    /\ UNCHANGED <<max_steps, i, pred, selected_fn, outcome, trajectory,
                   result, raised, reactCalls, toolCalls>>
    /\ UNCHANGED <<metricVars, normVars, prepVars>>

\* functions[selected_fn]: a missing key raises KeyError out of forward.
Lookup ==
    /\ pc = "lookup"
    /\ IF selected_fn \in DOMAIN functions
       THEN /\ pc' = "call"
            /\ UNCHANGED raised
       ELSE /\ pc' = "raised"
            /\ raised' = "KeyError"
    /\ UNCHANGED <<max_steps, i, pred, selected_fn, outcome, fn_output, trajectory,
                   result, reactCalls, toolCalls>>
    /\ UNCHANGED <<metricVars, normVars, prepVars>>

\* wrap_function_with_timeout(functions[selected_fn])(**pred.args)
Call ==
    /\ pc = "call"
    /\ \E o \in ToolOutcomes(functions[selected_fn], pred.args) :
          /\ outcome' = o
          /\ IF Wrapper(o).raises # PyNone
             THEN /\ pc' = "raised"
                  /\ raised' = Wrapper(o).raises
                  /\ UNCHANGED fn_output
             ELSE /\ pc' = "append"
                  /\ fn_output' = Wrapper(o).out
                  /\ UNCHANGED raised
    /\ toolCalls' = toolCalls + 1
    /\ UNCHANGED <<max_steps, i, pred, selected_fn, trajectory, result,
                   reactCalls>>
    /\ UNCHANGED <<metricVars, normVars, prepVars>>

\* dict(reasoning=..., selected_fn=..., args=..., **fn_output)
Step(p, fn, out) ==
    [reasoning |-> p.reasoning, selected_fn |-> fn, args |-> p.args,
     return_value |-> out.return_value, errors |-> out.errors]

\* trajectory.append(...)
AppendStep ==
    /\ pc = "append"
    /\ trajectory' = Append(trajectory, Step(pred, selected_fn, fn_output))
    /\ pc' = "check"
    /\ UNCHANGED <<max_steps, i, pred, selected_fn, outcome, fn_output, result,
                   raised, reactCalls, toolCalls>>
    /\ UNCHANGED <<metricVars, normVars, prepVars>>

\* the break test made on the model's raw answer
BreakCondition_Raw == pred.next_selected_fn = FinishName

\* if selected_fn == "finish"
BreakCondition == selected_fn = FinishName

\* if selected_fn == "finish": break
CheckFinish ==
    /\ pc = "check"
    /\ pc' = IF BreakCondition THEN "return" ELSE "for"
    /\ UNCHANGED <<max_steps, i, pred, selected_fn, outcome, fn_output, trajectory,
                   result, raised, reactCalls, toolCalls>>
    /\ UNCHANGED <<metricVars, normVars, prepVars>>

\* fn_output.get("return_value", '')
Answer(out) == DictGet(out, "return_value", EmptyStr)

\* return dspy.Prediction(answer=..., trajectory=trajectory); fn_output is
\* unbound when the loop body never ran.
Return ==
    /\ pc = "return"
    /\ IF fn_output = Unbound
       THEN /\ pc' = "raised"
            /\ raised' = "UnboundLocalError"
            /\ UNCHANGED result
       ELSE /\ pc' = "done"
            /\ result' = [returned |-> TRUE, answer |-> Answer(fn_output),
                          trajectory |-> trajectory]
            /\ UNCHANGED raised
    /\ UNCHANGED <<max_steps, i, pred, selected_fn, outcome, fn_output, trajectory,
                   reactCalls, toolCalls>>
    /\ UNCHANGED <<metricVars, normVars, prepVars>>

Next ==
    \/ ForNext
    \/ ForExhausted
    \/ React
    \/ Lookup
    \/ Call
    \/ AppendStep
    \/ CheckFinish
    \/ Return

Spec == Init /\ [][Next]_vars

\* forward is one sequential call: whatever step is enabled is taken.
LiveSpec == Spec /\ WF_vars(Next)

\* The counters stay within max_steps, so the guard on MaxCalls never binds.
TypeOK ==
    /\ max_steps \in 0..MaxStepsBound
    /\ i \in 0..max_steps
    /\ reactCalls \in 0..max_steps
    /\ toolCalls \in 0..max_steps

\* ------------------------------------------------- claims on Agent.forward
Last(seq) == seq[Len(seq)]

HasFinishStep == \E k \in 1..Len(trajectory) : trajectory[k].selected_fn = FinishName

\* C1: in every reachable state of a forward run the trajectory holds at most
\* max_steps steps, and so does the trajectory of the returned Prediction.
C1_TrajectoryBounded ==
    /\ Len(trajectory) <= max_steps
    /\ result.returned => Len(result.trajectory) <= max_steps

\* a run with max_steps >= 2 returned a Prediction of max_steps steps
C1_Witness ==
    /\ result.returned
    /\ max_steps >= 2
    /\ Len(result.trajectory) = max_steps

\* C2: every forward run eventually leaves the RUNNING state, after at most
\* max_steps iterations (reasoning calls), also when "finish" is never selected.
C2_LoopTerminates == <>(~Running) /\ [](reactCalls <= max_steps)

\* a run that used all its steps without ever selecting finish has ended
C2_Witness ==
    /\ pc = "done"
    /\ max_steps >= 2
    /\ reactCalls = max_steps
    /\ ~HasFinishStep

\* a "finish" step is the last element of the trajectory
C3_FinishStepIsLast ==
    \A k \in 1..Len(trajectory) :
        trajectory[k].selected_fn = FinishName => k = Len(trajectory)

\* with a "finish" step in the trajectory, a step of forward changes neither
\* the trajectory nor the number of reasoning calls or tool calls
C3_NothingAfterFinish ==
    HasFinishStep =>
        /\ trajectory' = trajectory
        /\ reactCalls' = reactCalls
        /\ toolCalls' = toolCalls

\* C3: once a step whose selected_fn is "finish" has been appended, no
\* reasoning call, no tool call and no append follows; a "finish" step is the
\* last element of the trajectory, so there is at most one.
C3_FinishEndsRun == []C3_FinishStepIsLast /\ [][C3_NothingAfterFinish]_vars

\* a run ended early on a quoted "finish" answer at its second step
C3_Witness ==
    /\ pc = "done"
    /\ Len(trajectory) = 2
    /\ max_steps > 2
    /\ pred.next_selected_fn = <<DQ>> \o FinishName \o <<DQ>>
    /\ Last(trajectory).selected_fn = FinishName

\* C4: a tool that runs longer than the 10-unit bound does not make the wrapped
\* call raise: the call yields return_value null and errors non-null, and
\* forward does not end with an exception.
C4_TimeoutYieldsErrors ==
    outcome.kind = "timeout" =>
        /\ raised = PyNone
        /\ fn_output # Unbound
        /\ fn_output.return_value = PyNone
        /\ fn_output.errors # PyNone

\* A tool exception never leaves forward and yields return_value null with
\* the exception text.
C5_ErrorCaptured ==
    outcome.kind = "exception" =>
        /\ raised = PyNone
        /\ fn_output = [return_value |-> PyNone, errors |-> outcome.text]

\* One tool invocation per appended step; a run that returns made as many
\* tool invocations as its trajectory has steps.
C5_CallsMatchSteps ==
    /\ pc = "append" => toolCalls = Len(trajectory) + 1
    /\ (pc # "append" /\ raised = PyNone) => toolCalls = Len(trajectory)
    /\ result.returned => toolCalls = Len(result.trajectory)

\* The failed call's step is appended as it is, without another invocation.
C5_OneStepAppended ==
    (pc = "append" /\ outcome.kind = "exception") =>
        /\ Len(trajectory') = Len(trajectory) + 1
        /\ Last(trajectory').return_value = PyNone
        /\ Last(trajectory').errors = outcome.text
        /\ Last(trajectory').selected_fn = selected_fn
        /\ toolCalls' = toolCalls

\* A run whose last tool call failed returns a Prediction.
C5_ReturnsAfterError ==
    (pc = "return" /\ outcome.kind = "exception") =>
        /\ pc' = "done"
        /\ result'.returned

\* as stated: after the failed step k the loop goes on whenever k < max_steps
C5_ProceedsAsStated ==
    (pc = "check" /\ outcome.kind = "exception") =>
        /\ trajectory' = trajectory
        /\ toolCalls' = toolCalls
        /\ i < max_steps => pc' = "for"
        /\ pc' \in {"for", "return"}

\* as amended: ... whenever k < max_steps and the failed tool is not "finish"
C5_ProceedsUnlessFinish ==
    (pc = "check" /\ outcome.kind = "exception") =>
        /\ trajectory' = trajectory
        /\ toolCalls' = toolCalls
        /\ (i < max_steps /\ selected_fn # FinishName) => pc' = "for"
        /\ selected_fn = FinishName => pc' = "return"
        /\ pc' \in {"for", "return"}

\* C5 as stated: when the selected tool raises at step k, one step is appended
\* with return_value null and the exception text, the tool is not re-invoked,
\* and the loop proceeds to step k+1 if k < max_steps, else the run returns.
C5_NoRetryAsStated ==
    /\ []C5_ErrorCaptured
    /\ []C5_CallsMatchSteps
    /\ [][C5_OneStepAppended]_vars
    /\ [][C5_ReturnsAfterError]_vars
    /\ [][C5_ProceedsAsStated]_vars

\* C5 as amended: the same, except that the loop proceeds to step k+1 only if
\* k < max_steps and the tool that raised is not "finish"; when "finish"
\* raises, the loop breaks and the run returns.
C5_NoRetryAmended ==
    /\ []C5_ErrorCaptured
    /\ []C5_CallsMatchSteps
    /\ [][C5_OneStepAppended]_vars
    /\ [][C5_ReturnsAfterError]_vars
    /\ [][C5_ProceedsUnlessFinish]_vars

\* a run of three failed tool calls (two exceptions, one TypeError) returned
C5_Witness ==
    /\ pc = "done"
    /\ Len(trajectory) = 3
    /\ trajectory[1].errors = "boom"
    /\ trajectory[2].errors = "TypeError"
    /\ trajectory[3].errors = "boom"
    /\ toolCalls = 3

\* the answer the specification describes for a trajectory
ExpectedAnswer(tr) ==
    IF tr = <<>> \/ Last(tr).return_value = PyNone
    THEN EmptyStr
    ELSE Last(tr).return_value

\* C6: forward returns a Prediction whose answer is the return_value of the
\* last executed step, and the empty string when that value is absent (the
\* last step produced no value, or no step was executed, in which case
\* forward must still return rather than fail on its unbound local).
C6_AnswerOrEmpty ==
    /\ raised # "UnboundLocalError"
    /\ result.returned => result.answer = ExpectedAnswer(result.trajectory)

\* the lookup of an unknown name raises KeyError and changes nothing else
C10_AbortsAtLookup ==
    (pc = "lookup" /\ selected_fn \notin DOMAIN functions) =>
        /\ pc' = "raised"
        /\ raised' = "KeyError"
        /\ trajectory' = trajectory
        /\ toolCalls' = toolCalls
        /\ reactCalls' = reactCalls
        /\ result' = NoResult

\* no step of forward follows an exception
C10_RaisedIsFinal == pc = "raised" => UNCHANGED agentVars

\* every recorded step names a registered tool; no Prediction after an exception
C10_NotAnErrorStep ==
    /\ \A k \in 1..Len(trajectory) : trajectory[k].selected_fn \in DOMAIN functions
    /\ raised # PyNone => ~result.returned

\* C10: when the normalized name is no key of the registry, forward ends with
\* KeyError there: no tool call, no appended step, no later iteration, no
\* Prediction, and no trajectory step carries the failure in its errors field.
C10_UnknownToolAborts ==
    /\ [][C10_AbortsAtLookup]_vars
    /\ [][C10_RaisedIsFinal]_vars
    /\ []C10_NotAnErrorStep

\* after two recorded steps the third answer names no registered tool
C10_Witness ==
    /\ pc = "raised"
    /\ raised = "KeyError"
    /\ Len(trajectory) = 2
    /\ toolCalls = 2
    /\ reactCalls = 3
    /\ selected_fn = <<DQ>> \o FinishName \o <<DQ>>

\* ----------------------------------------------------------------- metric
MaxStrLen == 3

Alphabet == {"1", "0", ".", ",", "A", "a"}

Strings(n) == UNION { [1..k -> Alphabet] : k \in 0..n }

\* str.lower() on the alphabet
LowerChar(c) == IF c = "A" THEN "a" ELSE c

Lower(s) == [k \in 1..Len(s) |-> LowerChar(s[k])]

\* str.replace(",", "")
IsNotComma(c) == c # ","

RemoveCommas(s) == SelectSeq(s, IsNotComma)

\* str(answer).rstrip(".0").replace(",", "").lower()
NormalizeAnswer(s) == Lower(RemoveCommas(RStrip(s, {".", "0"})))

\* metric(example, pred): pred == gold after normalization
metric(gold, answer) == NormalizeAnswer(answer) = NormalizeAnswer(gold)

MetricInit ==
    /\ AgentIdle /\ NormIdle /\ PrepIdle
    /\ m_gold \in Strings(MaxStrLen)
    /\ m_pred \in Strings(MaxStrLen)
    /\ m_pc = "start"
    /\ m_result = FALSE

Score ==
    /\ m_pc = "start"
    /\ m_result' = metric(m_gold, m_pred)
    /\ m_pc' = "scored"
    /\ UNCHANGED <<m_gold, m_pred>>
    /\ UNCHANGED <<agentVars, normVars, prepVars>>

MetricNext == Score

MetricSpec == MetricInit /\ [][MetricNext]_vars

\* The normalization the claim describes: one trailing ".0" suffix removed,
\* commas removed, lowercased.
StripSuffixOnce(s) ==
    IF Len(s) >= 2 /\ s[Len(s) - 1] = "." /\ s[Len(s)] = "0"
    THEN SubSeq(s, 1, Len(s) - 2)
    ELSE s

ClaimedNormalize(s) == Lower(RemoveCommas(StripSuffixOnce(s)))

\* C7: metric returns true exactly when gold and predicted answer are equal
\* after one trailing ".0" suffix is removed, commas are removed and the
\* strings are lowercased.
C7_MetricIsSuffixNormalizedEquality ==
    m_pc = "scored" =>
        (m_result <=> (ClaimedNormalize(m_gold) = ClaimedNormalize(m_pred)))

\* ------------------------------------------------ tool-name normalization
MaxQuotes == 2

Quotes == {DQ, SQ}

QuoteRuns == UNION { [1..k -> Quotes] : k \in 0..MaxQuotes }

\* A tool name wrapped in any combination of leading and trailing quotes.
WrappedNames ==
    { pre \o name \o post : pre \in QuoteRuns, post \in QuoteRuns,
                            name \in {FinishName, AddName} }

NormInit ==
    /\ AgentIdle /\ MetricIdle /\ PrepIdle
    /\ n_raw \in WrappedNames
    /\ n_pc = "start"
    /\ n_once = <<>>
    /\ n_twice = <<>>

\* selected_fn = pred.next_selected_fn.strip('"').strip("'")
NormalizeStep ==
    /\ n_pc = "start"
    /\ n_once' = NormalizeFn(n_raw)
    /\ n_pc' = "once"
    /\ UNCHANGED <<n_raw, n_twice>>
    /\ UNCHANGED <<agentVars, metricVars, prepVars>>

\* the same normalization applied to its own result
NormalizeAgain ==
    /\ n_pc = "once"
    /\ n_twice' = NormalizeFn(n_once)
    /\ n_pc' = "twice"
    /\ UNCHANGED <<n_raw, n_once>>
    /\ UNCHANGED <<agentVars, metricVars, prepVars>>

NormNext == NormalizeStep \/ NormalizeAgain

NormSpec == NormInit /\ [][NormNext]_vars

Quoted(s) == s # <<>> /\ (Head(s) \in Quotes \/ s[Len(s)] \in Quotes)

\* C9: for every tool name wrapped in any combination of leading and trailing
\* single or double quotes, the normalized name neither begins nor ends with
\* a quote character, and normalizing it again leaves it unchanged.
C9_QuotesStrippedIdempotent ==
    /\ n_pc \in {"once", "twice"} => ~Quoted(n_once)
    /\ n_pc = "twice" => n_twice = n_once

\* ------------------------------------------------- example preparation
MaxData == 2

MaxFuncs == 2

\* The module-level finish(answer), which returns answer unchanged.
FinishObj == [obj |-> "echo", id |-> 0]

\* A callable that exists before exec runs (a builtin the code binds its name to).
SharedObj == [obj |-> "shared", id |-> 0]

\* A value that is not callable.
ValueObj == [obj |-> "value", id |-> 0]

\* An entry of datapoint["functions"], by what the loop can observe of it:
\* whether the text starts with "def <name>(" (head), the name, and what
\* exec leaves bound to the name: a new function, nothing because the code
\* raises, a value that is not callable, or an already existing callable.
FuncCodes ==
    { NoCode } \cup
    [ head : {"def"}, name : {AddName, FinishName},
      body : {"def", "raises", "notcallable", "shared"} ]

\* re.search(r"^\s*def\s+([a-zA-Z0-9_]+)\s*\(", cleaned_code), then group(1) or None
ParseName(code) == IF code.head = "def" THEN code.name ELSE <<>>

\* local_vars.get(fn_name) after exec(cleaned_code, {}, local_vars)
ExecResult(code, id) ==
    CASE code.body = "def" -> [obj |-> "def", id |-> id]
      [] code.body = "shared" -> SharedObj
      [] OTHER -> ValueObj

\* callable(fn_obj)
Callable(o) == o.obj # "value"

\* d[key] = value
DictSet(dict, key, value) ==
    [k \in DOMAIN dict \cup {key} |-> IF k = key THEN value ELSE dict[k]]

\* func_dict.setdefault("finish", finish): keeps a tool already named finish
WithFinish_SetDefault(dict) ==
    IF FinishName \in DOMAIN dict THEN dict ELSE DictSet(dict, FinishName, FinishObj)

\* func_dict["finish"] = finish
WithFinish(dict) == DictSet(dict, FinishName, FinishObj)

PrepInit ==
    /\ AgentIdle /\ MetricIdle /\ NormIdle
    /\ nData \in 0..MaxData
    /\ d = 0
    /\ nFuncs = 0
    /\ f = 0
    /\ func_code = NoCode
    /\ func_dict = <<>>
    /\ fns2code = <<>>
    /\ examples = <<>>
    /\ nextId = 1
    /\ p_pc = "outer"
    /\ p_raised = PyNone

\* for datapoint in data: func_dict = {}
NextDatapoint ==
    /\ p_pc = "outer"
    /\ d < nData
    /\ nFuncs' \in 0..MaxFuncs
    /\ f' = 0
    /\ func_dict' = <<>>
    /\ p_pc' = "inner"
    /\ UNCHANGED <<nData, d, func_code, fns2code, examples, nextId, p_raised>>
    /\ UNCHANGED <<agentVars, metricVars, normVars>>

\* the loop over data is exhausted
DataExhausted ==
    /\ p_pc = "outer"
    /\ d = nData
    /\ p_pc' = "done"
    /\ UNCHANGED <<nData, d, nFuncs, f, func_code, func_dict, fns2code, examples,
                   nextId, p_raised>>
    /\ UNCHANGED <<agentVars, metricVars, normVars>>

\* for func_code in datapoint["functions"]
NextFunc ==
    /\ p_pc = "inner"
    /\ f < nFuncs
    /\ func_code' \in FuncCodes
    /\ f' = f + 1
    /\ p_pc' = "body"
    /\ UNCHANGED <<nData, d, nFuncs, func_dict, fns2code, examples, nextId, p_raised>>
    /\ UNCHANGED <<agentVars, metricVars, normVars>>

\* the body of the inner loop: parse the name, exec, register
ProcessFunc ==
    /\ p_pc = "body"
    /\ LET fn_name == ParseName(func_code)
           fn_obj == ExecResult(func_code, nextId)
       IN  IF fn_name = <<>>
           THEN \* if not fn_name: continue
                /\ p_pc' = "inner"
                /\ UNCHANGED <<func_dict, fns2code, nextId, p_raised>>
           ELSE IF func_code.body = "raises"
           THEN \* exec(...) raises
                /\ p_pc' = "aborted"
                /\ p_raised' = "ExecError"
                /\ UNCHANGED <<func_dict, fns2code, nextId>>
           ELSE IF ~Callable(fn_obj)
           THEN /\ p_pc' = "inner"
                /\ UNCHANGED <<func_dict, fns2code, nextId, p_raised>>
           ELSE /\ func_dict' = DictSet(func_dict, fn_name, fn_obj)
                /\ nextId' = IF func_code.body = "def" THEN nextId + 1 ELSE nextId
                /\ IF fn_obj \in DOMAIN fns2code
                   THEN \* assert fn_obj not in fns2code
                        /\ p_pc' = "aborted"
                        /\ p_raised' = "AssertionError"
                        /\ UNCHANGED fns2code
                   ELSE /\ fns2code' = DictSet(fns2code, fn_obj, fn_name)
                        /\ p_pc' = "inner"
                        /\ UNCHANGED p_raised
    /\ UNCHANGED <<nData, d, nFuncs, f, func_code, examples>>
    /\ UNCHANGED <<agentVars, metricVars, normVars>>

\* func_dict["finish"] = finish; examples.append(dspy.Example(...))
FinishDatapoint ==
    /\ p_pc = "inner"
    /\ f = nFuncs
    /\ func_dict' = WithFinish(func_dict)
    /\ examples' = Append(examples, [functions |-> func_dict'])
    /\ d' = d + 1
    /\ p_pc' = "outer"
    /\ UNCHANGED <<nData, nFuncs, f, func_code, fns2code, nextId, p_raised>>
    /\ UNCHANGED <<agentVars, metricVars, normVars>>

PrepNext ==
    \/ NextDatapoint
    \/ DataExhausted
    \/ NextFunc
    \/ ProcessFunc
    \/ FinishDatapoint

PrepSpec == PrepInit /\ [][PrepNext]_vars

\* one example per completed datapoint, each binding "finish" to the echo tool
C8_EveryExampleHasEcho ==
    /\ Len(examples) = d
    /\ p_pc = "done" => Len(examples) = nData
    /\ \A k \in 1..Len(examples) :
          /\ FinishName \in DOMAIN examples[k].functions
          /\ examples[k].functions[FinishName] = FinishObj

\* an entry whose name cannot be parsed is passed over
C8_UnparsedIsSkipped ==
    (p_pc = "body" /\ ParseName(func_code) = <<>>) =>
        /\ p_pc' = "inner"
        /\ p_raised' = PyNone
        /\ func_dict' = func_dict
        /\ fns2code' = fns2code
        /\ examples' = examples

\* C8: every completed datapoint has produced exactly one example (so after
\* the loop there is one per datapoint), every example's registry binds
\* "finish" to the echo tool even when a dataset function is named finish,
\* and an entry whose name cannot be parsed adds no tool and does not end the
\* loop.
C8_FinishAlwaysInjected == []C8_EveryExampleHasEcho /\ [][C8_UnparsedIsSkipped]_vars

\* two datapoints done: a dataset function named finish, an unparsed entry
C8_Witness ==
    /\ p_pc = "done"
    /\ nData = 2
    /\ func_code.head = "other"
    /\ \E o \in DOMAIN fns2code : fns2code[o] = FinishName
    /\ DOMAIN examples[1].functions = {FinishName}
    /\ DOMAIN examples[2].functions = {FinishName, AddName}

====
